---- MODULE Spec2Model ----
(***************************************************************************)
(* Model of the revision-locator codec (GitUri), the commit record         *)
(* (GitCommit) and the stash-save command of vscode-gitlens.               *)
(*                                                                         *)
(* Strings are sequences of tokens.  A token is either a delimiter         *)
(* character ("/", ".", ":", "?", "#", "{", "}", ",", the double quote,    *)
(* "^") or a run of ordinary characters ("repo", "src", "ts", "0", ...).   *)
(***************************************************************************)
EXTENDS Integers, Sequences, FiniteSets, TLC

VARIABLES
    \* ---- GitUri codec ----
    op,          \* the last GitUri operation that ran
    inp,         \* its input
    revUri,      \* the Uri last returned by toRevisionUri
    gitUri,      \* the GitUri last constructed
    gitCalls,    \* the GitService methods called by the last fromUri
    \* ---- GitCommit ----
    commit,      \* the fields of one GitCommit instance
    calls,       \* the resolvePreviousFileSha invocations, by call id
    hist,        \* history of the resolver traffic of the instance
    last,        \* the last GitCommit step: its kind, its input, what it saw
    result,      \* the value returned by the last getter / with() call
    \* ---- StashSaveCommand ----
    cmd,         \* one run of execute(args): where it is and what it did
    \* ---- Logger ----
    logger,      \* the static fields of Logger and the channels of the window
    config       \* the configuration values the Logger reads

vars == <<op, inp, revUri, gitUri, gitCalls, commit, calls, hist, last, result, cmd,
          logger, config>>

uriVars == <<op, inp, revUri, gitUri, gitCalls>>
commitVars == <<commit, calls, hist, last, result>>
loggerVars == <<logger, config>>

----------------------------------------------------------------------------
(* Bounds *)

MaxDepth == 1        \* directories between the repository root and a file
MaxCalls == 3        \* resolvePreviousFileSha invocations on the instance
MaxChannels == 3     \* output channels the window creates
MaxLines == 2        \* lines written to the console, and to one channel

----------------------------------------------------------------------------
(* Strings *)

Q == "\""

\* JavaScript undefined, as a token sequence no string is equal to
UNDEFINED == <<"<undefined>">>
\* JavaScript null (only used for the changes of with())
NULL == <<"<null>">>

Min(a, b) == IF a < b THEN a ELSE b

\* the first index of token t in s, 0 when there is none
IndexOf(s, t) ==
    IF \E i \in 1..Len(s) : s[i] = t
    THEN CHOOSE i \in 1..Len(s) : s[i] = t /\ \A j \in 1..(i - 1) : s[j] # t
    ELSE 0

\* the last index of token t in s, 0 when there is none
LastIndexOf(s, t) ==
    IF \E i \in 1..Len(s) : s[i] = t
    THEN CHOOSE i \in 1..Len(s) : s[i] = t /\ \A j \in (i + 1)..Len(s) : s[j] # t
    ELSE 0

\* the first index of any token of set ts in s, Len(s) + 1 when there is none
IndexOfAny(s, ts) ==
    IF \E i \in 1..Len(s) : s[i] \in ts
    THEN CHOOSE i \in 1..Len(s) : s[i] \in ts /\ \A j \in 1..(i - 1) : s[j] \notin ts
    ELSE Len(s) + 1

RECURSIVE Split(_, _)
\* String.prototype.split on a one-token separator
Split(s, t) ==
    LET i == IndexOf(s, t)
    IN  IF i = 0 THEN <<s>>
        ELSE <<SubSeq(s, 1, i - 1)>> \o Split(SubSeq(s, i + 1, Len(s)), t)

RECURSIVE Join(_, _)
\* Array.prototype.join with a one-token separator
Join(parts, t) ==
    IF Len(parts) = 0 THEN <<>>
    ELSE IF Len(parts) = 1 THEN parts[1]
    ELSE parts[1] \o <<t>> \o Join(Tail(parts), t)

RECURSIVE ReplaceAll(_, _, _)
\* String.prototype.replace(/t/g, u)
ReplaceAll(s, t, u) ==
    IF Len(s) = 0 THEN <<>>
    ELSE <<IF s[1] = t THEN u ELSE s[1]>> \o ReplaceAll(Tail(s), t, u)

----------------------------------------------------------------------------
(* Node's path module, posix flavour *)

Cwd == <<"/", "cwd">>

IsAbsolute(p) == Len(p) > 0 /\ p[1] = "/"

DotDot == <<".", ".">>

RECURSIVE NormalizeSegments(_, _, _)
\* normalizeString: drops empty and "." segments, lets ".." remove the
\* segment before it; above the root ".." is dropped when allowAbove is FALSE
NormalizeSegments(segs, acc, allowAbove) ==
    IF Len(segs) = 0 THEN acc
    ELSE LET s == segs[1]
             rest == Tail(segs)
         IN  IF s = <<>> \/ s = <<".">> THEN NormalizeSegments(rest, acc, allowAbove)
             ELSE IF s = DotDot
                  THEN IF Len(acc) > 0 /\ acc[Len(acc)] # DotDot
                       THEN NormalizeSegments(rest, SubSeq(acc, 1, Len(acc) - 1), allowAbove)
                       ELSE IF allowAbove
                            THEN NormalizeSegments(rest, Append(acc, s), allowAbove)
                            ELSE NormalizeSegments(rest, acc, allowAbove)
                  ELSE NormalizeSegments(rest, Append(acc, s), allowAbove)

\* the segments of an absolute path, normalised
AbsSegments(p) == NormalizeSegments(Split(p, "/"), <<>>, FALSE)

\* path.resolve(a, b)
PathResolve(a, b) ==
    LET joined == IF IsAbsolute(b) THEN b
                  ELSE IF IsAbsolute(a) THEN a \o <<"/">> \o b
                  ELSE Cwd \o <<"/">> \o a \o <<"/">> \o b
    IN  <<"/">> \o Join(AbsSegments(joined), "/")

RECURSIVE CommonPrefixLen(_, _)
CommonPrefixLen(xs, ys) ==
    IF Len(xs) = 0 \/ Len(ys) = 0 \/ xs[1] # ys[1] THEN 0
    ELSE 1 + CommonPrefixLen(Tail(xs), Tail(ys))

\* path.relative(from, to)
PathRelative(from, to) ==
    LET f == AbsSegments(PathResolve(from, <<>>))
        t == AbsSegments(PathResolve(to, <<>>))
        k == CommonPrefixLen(f, t)
        ups == [i \in 1..(Len(f) - k) |-> DotDot]
    IN  Join(ups \o SubSeq(t, k + 1, Len(t)), "/")

\* path.normalize
PathNormalize(p) ==
    LET segs == NormalizeSegments(Split(p, "/"), <<>>, ~IsAbsolute(p))
        body == Join(segs, "/")
    IN  IF IsAbsolute(p) THEN <<"/">> \o body
        ELSE IF body = <<>> THEN <<".">> ELSE body

\* path.join(a, b)
PathJoin(a, b) ==
    IF a = <<>> /\ b = <<>> THEN <<".">>
    ELSE IF a = <<>> THEN PathNormalize(b)
    ELSE IF b = <<>> THEN PathNormalize(a)
    ELSE PathNormalize(a \o <<"/">> \o b)

\* path.parse(p): dir, base, name and ext of a path without trailing slash
PathParse(p) ==
    LET slash == LastIndexOf(p, "/")
        base == SubSeq(p, slash + 1, Len(p))
        dir == IF slash = 0 THEN <<>>
               ELSE IF slash = 1 THEN <<"/">>
               ELSE SubSeq(p, 1, slash - 1)
        dot == LastIndexOf(base, ".")
        hasExt == dot > 1 /\ base # DotDot
    IN  [dir |-> dir,
         base |-> base,
         name |-> IF hasExt THEN SubSeq(base, 1, dot - 1) ELSE base,
         ext |-> IF hasExt THEN SubSeq(base, dot, Len(base)) ELSE <<>>]

----------------------------------------------------------------------------
(* JSON, for objects whose values are strings *)

RECURSIVE JsonMembers(_)
JsonMembers(pairs) ==
    IF Len(pairs) = 0 THEN <<>>
    ELSE LET p == pairs[1]
             rest == JsonMembers(Tail(pairs))
         IN  IF p[2] = UNDEFINED THEN rest
             ELSE <<(<<Q>> \o p[1] \o <<Q, ":", Q>> \o p[2] \o <<Q>>)>> \o rest

\* JSON.stringify of an object given as <<key, value>> pairs; a member whose
\* value is undefined is left out
JsonStringify(pairs) == <<"{">> \o Join(JsonMembers(pairs), ",") \o <<"}">>

RECURSIVE QuotedStrings(_)
\* the string literals of a JSON text, in order
QuotedStrings(s) ==
    LET i == IndexOf(s, Q)
        rest == SubSeq(s, i + 1, Len(s))
        j == IndexOf(rest, Q)
    IN  IF i = 0 \/ j = 0 THEN <<>>
        ELSE <<SubSeq(rest, 1, j - 1)>> \o QuotedStrings(SubSeq(rest, j + 1, Len(rest)))

\* JSON.parse(text)[key]
JsonGet(text, key) ==
    LET strs == QuotedStrings(text)
        ks == {i \in 1..Len(strs) : i % 2 = 1 /\ i < Len(strs) /\ strs[i] = key}
    IN  IF ks = {} THEN UNDEFINED
        ELSE strs[(CHOOSE i \in ks : \A j \in ks : j <= i) + 1]

----------------------------------------------------------------------------
(* vscode.Uri *)

\* DocumentSchemes
GitLensGit == <<"gitlens-git">>
GitScheme == <<"git">>
FileScheme == <<"file">>

\* Uri.parse: scheme ":" path [ "?" query ] [ "#" fragment ]
UriParse(s) ==
    LET c == IndexOf(s, ":")
        hasScheme == c > 1 /\ \A i \in 1..(c - 1) : s[i] \notin {"/", "?", "#"}
        afterScheme == IF hasScheme THEN SubSeq(s, c + 1, Len(s)) ELSE s
        hasAuth == Len(afterScheme) >= 2 /\ afterScheme[1] = "/" /\ afterScheme[2] = "/"
        a0 == SubSeq(afterScheme, 3, Len(afterScheme))
        aEnd == IndexOfAny(a0, {"/", "?", "#"})
        authority == IF hasAuth THEN SubSeq(a0, 1, aEnd - 1) ELSE <<>>
        afterAuth == IF hasAuth THEN SubSeq(a0, aEnd, Len(a0)) ELSE afterScheme
        pEnd == IndexOfAny(afterAuth, {"?", "#"})
        afterPath == SubSeq(afterAuth, pEnd, Len(afterAuth))
        hasQuery == Len(afterPath) > 0 /\ afterPath[1] = "?"
        q0 == SubSeq(afterPath, 2, Len(afterPath))
        qEnd == IndexOfAny(q0, {"#"})
        afterQuery == IF hasQuery THEN SubSeq(q0, qEnd, Len(q0)) ELSE afterPath
    IN  [scheme |-> IF hasScheme THEN SubSeq(s, 1, c - 1) ELSE <<>>,
         authority |-> authority,
         path |-> SubSeq(afterAuth, 1, pEnd - 1),
         query |-> IF hasQuery THEN SubSeq(q0, 1, qEnd - 1) ELSE <<>>,
         fragment |-> IF Len(afterQuery) > 0 THEN Tail(afterQuery) ELSE <<>>]

\* Uri.file(path)
UriFile(p) ==
    [scheme |-> FileScheme, authority |-> <<>>, path |-> p,
     query |-> <<>>, fragment |-> <<>>]

\* uri.fsPath on a posix host
FsPath(uri) == uri.path

----------------------------------------------------------------------------
(* Constants of the extension and revision-id classification *)

ShortShaLength == 7

ZeroSha == [i \in 1..40 |-> "0"]
\* the "uncommitted" revision id
UncommittedSha == ZeroSha
\* the "staged uncommitted" revision id
StagedUncommittedSha == ZeroSha \o <<":">>

\* GitService.isStagedUncommitted
IsStagedUncommitted(sha) == sha = StagedUncommittedSha

\* GitService.isUncommitted: true of either sentinel
IsUncommitted(sha) == sha = UncommittedSha \/ sha = StagedUncommittedSha

\* GitService.shortenSha: sentinels are returned as they are
ShortenSha(sha) ==
    IF IsUncommitted(sha) THEN sha
    ELSE SubSeq(sha, 1, Min(ShortShaLength, Len(sha)))

\* GitService.normalizePath: backslashes become slashes
NormalizePath(fileName) == ReplaceAll(fileName, "\\", "/")

\* a JavaScript string is falsy when it is undefined or empty
Falsy(s) == s = UNDEFINED \/ s = <<>>

----------------------------------------------------------------------------
(* GitUri *)

\* the second constructor argument: nothing, a repoPath, or an IGitCommitInfo
NoArg == [kind |-> "undefined", fileName |-> UNDEFINED, repoPath |-> UNDEFINED, sha |-> UNDEFINED]
RepoPathArg(r) == [kind |-> "string", fileName |-> UNDEFINED, repoPath |-> r, sha |-> UNDEFINED]
CommitInfo(f, r, s) == [kind |-> "object", fileName |-> f, repoPath |-> r, sha |-> s]

MkGitUri(scheme, authority, path, query, fragment, repoPath, sha) ==
    [scheme |-> scheme, authority |-> authority, path |-> path, query |-> query,
     fragment |-> fragment, repoPath |-> repoPath, sha |-> sha]

\* no GitUri has been constructed
NoGitUri == MkGitUri(UNDEFINED, UNDEFINED, UNDEFINED, UNDEFINED, UNDEFINED, UNDEFINED, UNDEFINED)
NoUri == [scheme |-> UNDEFINED, authority |-> UNDEFINED, path |-> UNDEFINED,
          query |-> UNDEFINED, fragment |-> UNDEFINED]

\* the Uri part of a GitUri
AsUri(g) == [scheme |-> g.scheme, authority |-> g.authority, path |-> g.path,
             query |-> g.query, fragment |-> g.fragment]

\* GitUri constructor with the sentinel test left out
GitUriNew_keepEverySha(uri, commitOrRepoPath) ==
    IF uri.scheme = GitLensGit
    THEN MkGitUri(uri.scheme, uri.authority,
                  PathResolve(JsonGet(uri.query, <<"repoPath">>), JsonGet(uri.query, <<"fileName">>)),
                  uri.query, uri.fragment,
                  JsonGet(uri.query, <<"repoPath">>), JsonGet(uri.query, <<"sha">>))
    ELSE IF commitOrRepoPath.kind = "undefined"
    THEN MkGitUri(uri.scheme, uri.authority, uri.path, uri.query, uri.fragment, UNDEFINED, UNDEFINED)
    ELSE IF commitOrRepoPath.kind = "string"
    THEN MkGitUri(uri.scheme, uri.authority, uri.path, uri.query, uri.fragment,
                  commitOrRepoPath.repoPath, UNDEFINED)
    ELSE MkGitUri(uri.scheme, uri.authority,
                  PathResolve(commitOrRepoPath.repoPath,
                              IF Falsy(commitOrRepoPath.fileName) THEN FsPath(uri)
                              ELSE commitOrRepoPath.fileName),
                  uri.query, uri.fragment,
                  commitOrRepoPath.repoPath, commitOrRepoPath.sha)

\* new GitUri(uri, commitOrRepoPath), uri given
GitUriNew(uri, commitOrRepoPath) ==
    IF uri.scheme = GitLensGit
    THEN LET dataFileName == JsonGet(uri.query, <<"fileName">>)
             dataRepoPath == JsonGet(uri.query, <<"repoPath">>)
             dataSha == JsonGet(uri.query, <<"sha">>)
         IN  MkGitUri(uri.scheme, uri.authority, PathResolve(dataRepoPath, dataFileName),
                      uri.query, uri.fragment,
                      dataRepoPath,
                      IF IsStagedUncommitted(dataSha) \/ ~IsUncommitted(dataSha)
                      THEN dataSha ELSE UNDEFINED)
    ELSE IF commitOrRepoPath.kind = "undefined"
    THEN MkGitUri(uri.scheme, uri.authority, uri.path, uri.query, uri.fragment, UNDEFINED, UNDEFINED)
    ELSE IF commitOrRepoPath.kind = "string"
    THEN MkGitUri(uri.scheme, uri.authority, uri.path, uri.query, uri.fragment,
                  commitOrRepoPath.repoPath, UNDEFINED)
    ELSE MkGitUri(uri.scheme, uri.authority,
                  PathResolve(commitOrRepoPath.repoPath,
                              IF Falsy(commitOrRepoPath.fileName) THEN FsPath(uri)
                              ELSE commitOrRepoPath.fileName),
                  uri.query, uri.fragment,
                  commitOrRepoPath.repoPath,
                  IF IsStagedUncommitted(commitOrRepoPath.sha) \/ ~IsUncommitted(commitOrRepoPath.sha)
                  THEN commitOrRepoPath.sha ELSE UNDEFINED)

\* GitUri.shortSha
ShortSha(g) == IF Falsy(g.sha) THEN g.sha ELSE ShortenSha(g.sha)

\* GitUri.fromRevisionUri
FromRevisionUri(uri) == GitUriNew(uri, NoArg)

\* a template literal prints undefined as the text "undefined"
Text(s) == IF s = UNDEFINED THEN <<"undefined">> ELSE s

\* the end of toRevisionUri with the short id written into the payload
RevisionUriOf_shortShaInPayload(fileName, sha, shortSha, repoPath) ==
    LET data == << <<(<<"fileName">>), NormalizePath(PathRelative(repoPath, fileName))>>,
                   <<(<<"repoPath">>), repoPath>>,
                   <<(<<"sha">>), shortSha>> >>
        parsed == PathParse(fileName)
    IN  UriParse(GitLensGit \o <<":">> \o PathJoin(parsed.dir, parsed.name) \o <<":">>
                 \o Text(shortSha) \o parsed.ext \o <<"?">> \o JsonStringify(data))

\* the end of toRevisionUri: the payload and the locator built from
\* fileName, sha, shortSha and repoPath
RevisionUriOf(fileName, sha, shortSha, repoPath) ==
    LET data == << <<(<<"fileName">>), NormalizePath(PathRelative(repoPath, fileName))>>,
                   <<(<<"repoPath">>), repoPath>>,
                   <<(<<"sha">>), sha>> >>
        parsed == PathParse(fileName)
    IN  UriParse(GitLensGit \o <<":">> \o PathJoin(parsed.dir, parsed.name) \o <<":">>
                 \o Text(shortSha) \o parsed.ext \o <<"?">> \o JsonStringify(data))

\* GitUri.toRevisionUri(sha, fileName, repoPath)
ToRevisionUri(sha, fileName, repoPath) ==
    RevisionUriOf(fileName, sha, ShortenSha(sha), repoPath)

\* GitUri.toRevisionUri(sha, status, repoPath)
ToRevisionUriOfStatus(sha, statusFileName, repoPath) ==
    RevisionUriOf(PathResolve(repoPath, statusFileName), sha, ShortenSha(sha), repoPath)

\* GitUri.toRevisionUri(uri)
ToRevisionUriOfGitUri(g) ==
    RevisionUriOf(FsPath(g), g.sha, ShortSha(g), g.repoPath)

\* what fromUri returns, the GitService methods it called, whether it threw
FromUriResult(g, called, threw) == [gitUri |-> g, calls |-> called, threw |-> threw]

\* fromUri without the isTrackable test
FromUri_noTrackableTest(uri, isGitUri, trackable, repoPath, versioned) ==
    IF isGitUri THEN FromUriResult(uri, {}, FALSE)
    ELSE IF uri.scheme = GitLensGit
    THEN FromUriResult(GitUriNew(AsUri(uri), NoArg), {"isTrackable"}, FALSE)
    ELSE IF versioned # NoGitUri
    THEN FromUriResult(versioned, {"isTrackable", "getGitUriForVersionedFile"}, FALSE)
    ELSE FromUriResult(GitUriNew(AsUri(uri), IF repoPath = UNDEFINED THEN NoArg ELSE RepoPathArg(repoPath)),
                       {"isTrackable", "getGitUriForVersionedFile", "getRepoPath"}, FALSE)

\* GitUri.fromUri(uri, git); trackable, repoPath and versioned are what
\* git.isTrackable, git.getRepoPath and git.getGitUriForVersionedFile return
FromUri(uri, isGitUri, trackable, repoPath, versioned) ==
    IF isGitUri THEN FromUriResult(uri, {}, FALSE)
    ELSE IF ~trackable
    THEN FromUriResult(GitUriNew(AsUri(uri), NoArg), {"isTrackable"}, FALSE)
    ELSE IF uri.scheme = GitLensGit
    THEN FromUriResult(GitUriNew(AsUri(uri), NoArg), {"isTrackable"}, FALSE)
    ELSE IF uri.scheme = GitScheme
    THEN LET dataPath == JsonGet(uri.query, <<"path">>)
             dataRef == JsonGet(uri.query, <<"ref">>)
         IN  IF repoPath = UNDEFINED
             \* path.resolve(undefined, ...) throws a TypeError
             THEN FromUriResult(NoGitUri, {"isTrackable", "getRepoPath"}, TRUE)
             ELSE FromUriResult(GitUriNew(AsUri(uri),
                                          CommitInfo(dataPath, repoPath,
                                                     IF dataRef = <<>> \/ dataRef = UNDEFINED
                                                     THEN UNDEFINED ELSE dataRef)),
                                {"isTrackable", "getRepoPath"}, FALSE)
    ELSE IF versioned # NoGitUri
    THEN FromUriResult(versioned, {"isTrackable", "getGitUriForVersionedFile"}, FALSE)
    ELSE FromUriResult(GitUriNew(AsUri(uri), IF repoPath = UNDEFINED THEN NoArg ELSE RepoPathArg(repoPath)),
                       {"isTrackable", "getGitUriForVersionedFile", "getRepoPath"}, FALSE)

----------------------------------------------------------------------------
(* Inputs *)

RepoRoots == {<<"/", "repo">>, <<"/", "work", "/", "repo">>}

DirNames == {<<"src">>}
BaseNames == {<<"a", ".", "ts">>, <<"b">>, <<".", "x">>}

RECURSIVE DirsOfDepth(_)
DirsOfDepth(n) ==
    IF n = 0 THEN {<<>>}
    ELSE {d \o <<"/">> \o p : d \in DirNames, p \in DirsOfDepth(n - 1)}

\* relative file names in normal form: at most MaxDepth directories, then a
\* base name
RelFiles ==
    UNION {{d \o b : d \in DirsOfDepth(n), b \in BaseNames} : n \in 0..MaxDepth}

\* two committed ids with the same short form
ShaA == <<"d", "e", "a", "d", "b", "e", "e", "f", "0">>
ShaB == <<"d", "e", "a", "d", "b", "e", "e", "f", "1">>
RealShas == {ShaA, ShaB}
Shas == RealShas \cup {UncommittedSha, StagedUncommittedSha}

IsRealSha(sha) == sha # UNDEFINED /\ ~IsUncommitted(sha)

\* a locator of the git extension's diff view
GitDiffUri(p, ref) ==
    [scheme |-> GitScheme, authority |-> <<>>, path |-> p,
     query |-> JsonStringify(<< <<(<<"path">>), p>>, <<(<<"ref">>), ref>> >>),
     fragment |-> <<>>]

Plain(uri) == MkGitUri(uri.scheme, uri.authority, uri.path, uri.query, uri.fragment,
                       UNDEFINED, UNDEFINED)

\* the plain locators handed to fromUri
PlainUris ==
    {UriFile(PathResolve(r, f)) : r \in RepoRoots, f \in {<<"a", ".", "ts">>}}
    \cup {GitDiffUri(PathResolve(r, <<"b">>), ref) : r \in RepoRoots, ref \in {<<>>, ShaA, UncommittedSha}}
    \cup {ToRevisionUri(sha, PathResolve(<<"/", "repo">>, <<"a", ".", "ts">>), <<"/", "repo">>) :
            sha \in {ShaA, StagedUncommittedSha}}
    \cup {[scheme |-> <<"untitled">>, authority |-> <<>>, path |-> <<"Untitled-1">>,
           query |-> <<>>, fragment |-> <<>>],
          [scheme |-> <<"http">>, authority |-> <<"host">>, path |-> <<"/", "x">>,
           query |-> <<"q">>, fragment |-> <<"f">>]}

----------------------------------------------------------------------------
(* GitUri operations *)

NoInput == [kind |-> "none"]

UriInit ==
    /\ op = "none"
    /\ inp = NoInput
    /\ revUri = NoUri
    /\ gitUri = NoGitUri
    /\ gitCalls = {}

\* toRevisionUri(sha, fileName, repoPath) and toRevisionUri(sha, status, repoPath)
DoToRevisionUri ==
    \E sha \in Shas, root \in RepoRoots, rel \in RelFiles, overload \in {"fileName", "status"} :
        /\ op' = "toRevisionUri"
        /\ inp' = [kind |-> "triple", repoPath |-> root, fileName |-> rel, sha |-> sha]
        /\ revUri' = IF overload = "fileName"
                     THEN ToRevisionUri(sha, PathResolve(root, rel), root)
                     ELSE ToRevisionUriOfStatus(sha, rel, root)
        /\ gitUri' = NoGitUri
        /\ gitCalls' = {}

\* fromRevisionUri(uri) of the locator toRevisionUri returned
DoFromRevisionUri ==
    /\ op \in {"toRevisionUri", "toRevisionUri(uri)"}
    /\ op' = "fromRevisionUri"
    /\ gitUri' = FromRevisionUri(revUri)
    /\ UNCHANGED <<inp, revUri, gitCalls>>

\* toRevisionUri(uri) of the GitUri just decoded
DoToRevisionUriOfGitUri ==
    /\ op = "fromRevisionUri"
    /\ op' = "toRevisionUri(uri)"
    /\ revUri' = ToRevisionUriOfGitUri(gitUri)
    /\ gitUri' = NoGitUri
    /\ UNCHANGED <<inp, gitCalls>>

\* new GitUri(uri, commit) with an explicit IGitCommitInfo
DoNewGitUri ==
    \E root \in RepoRoots, f \in {<<"a", ".", "ts">>, UNDEFINED}, sha \in Shas \cup {UNDEFINED} :
        LET uri == UriFile(PathResolve(root, <<"b">>))
        IN  /\ op' = "new GitUri(uri, commit)"
            /\ inp' = [kind |-> "commit", uri |-> uri, repoPath |-> root, fileName |-> f, sha |-> sha]
            /\ gitUri' = GitUriNew(uri, CommitInfo(f, root, sha))
            /\ revUri' = NoUri
            /\ gitCalls' = {}

\* fromUri(uri, git)
DoFromUri ==
    \E uri \in PlainUris, isGitUri \in BOOLEAN, trackable \in BOOLEAN,
       repoPath \in {<<"/", "repo">>, UNDEFINED}, hasVersioned \in BOOLEAN :
        LET g == IF isGitUri THEN GitUriNew(uri, RepoPathArg(<<"/", "repo">>)) ELSE Plain(uri)
            versioned == IF hasVersioned THEN GitUriNew(uri, CommitInfo(UNDEFINED, <<"/", "repo">>, ShaB))
                         ELSE NoGitUri
            r == FromUri(g, isGitUri, trackable, repoPath, versioned)
        IN  /\ op' = IF r.threw THEN "fromUri threw" ELSE "fromUri"
            /\ inp' = [kind |-> "uri", uri |-> g, isGitUri |-> isGitUri, trackable |-> trackable]
            /\ gitUri' = r.gitUri
            /\ gitCalls' = r.calls
            /\ revUri' = NoUri

----------------------------------------------------------------------------
(* GitCommit *)

\* new GitCommit(type, repoPath, sha, ..., fileName, originalFileName,
\* previousSha, previousFileName); author, date and message are left out
GitCommitNew(type, repoPath, sha, fileName, originalFileName, previousSha, previousFileName) ==
    [type |-> type,
     repoPath |-> repoPath,
     sha |-> sha,
     fileName |-> IF Falsy(fileName) THEN <<>> ELSE fileName,
     originalFileName |-> originalFileName,
     previousSha |-> previousSha,
     previousFileName |-> previousFileName,
     resolvedPreviousFileSha |-> UNDEFINED]

\* get isFile
IsFile(c) == c.type \in {<<"blame">>, <<"file">>, <<"stash-file">>}

\* get fileName
FileName(c) == IF IsFile(c) THEN c.fileName ELSE <<>>

\* get uri
CommitUri(c) == UriFile(PathResolve(c.repoPath, FileName(c)))

\* get previousUri
PreviousUri(c) ==
    IF ~Falsy(c.previousFileName)
    THEN UriFile(PathResolve(c.repoPath,
                             IF ~Falsy(c.previousFileName) THEN c.previousFileName
                             ELSE c.originalFileName))
    ELSE CommitUri(c)

\* get previousFileSha (abstract in GitCommit): the declared previous id
PreviousFileSha(c) == c.previousSha

\* set previousSha that keeps the resolved value
SetPreviousSha_keepResolved(c, value) ==
    IF value = c.previousSha THEN c
    ELSE [c EXCEPT !.previousSha = value]

\* set previousSha(value)
SetPreviousSha(c, value) ==
    IF value = c.previousSha THEN c
    ELSE [c EXCEPT !.previousSha = value, !.resolvedPreviousFileSha = UNDEFINED]

\* the early return that is never taken
AlreadyResolved_never(c) == FALSE

\* resolvePreviousFileSha, line 148: return without work
AlreadyResolved(c) == c.resolvedPreviousFileSha # UNDEFINED

\* the arguments resolvePreviousFileSha passes to git.resolveReference
ResolveArgs(c) ==
    [repoPath |-> c.repoPath,
     ref |-> PreviousFileSha(c),
     uri |-> IF ~Falsy(FileName(c)) THEN PreviousUri(c) ELSE NoUri]

\* getChangedValue that takes null for "no change"
GetChangedValue_nullKeeps(change, original) ==
    IF change = UNDEFINED \/ change = NULL THEN original ELSE change

\* getChangedValue(change, original)
GetChangedValue(change, original) ==
    IF change = UNDEFINED THEN original
    ELSE IF change # NULL THEN change ELSE UNDEFINED

\* with(changes) of the concrete commit classes: a new record
With(c, changes) ==
    GitCommitNew(IF changes.type = UNDEFINED THEN c.type ELSE changes.type,
                 c.repoPath,
                 IF changes.sha = UNDEFINED THEN c.sha ELSE changes.sha,
                 IF changes.fileName = UNDEFINED THEN c.fileName ELSE changes.fileName,
                 GetChangedValue(changes.originalFileName, c.originalFileName),
                 GetChangedValue(changes.previousSha, c.previousSha),
                 GetChangedValue(changes.previousFileName, c.previousFileName))

----------------------------------------------------------------------------
(* GitCommit operations *)

ShaC == <<"c", "0", "f", "f", "e", "e", "0", "0", "2">>

FileA == <<"a", ".", "ts">>
FileOld == <<"old", ".", "ts">>
FilePrev == <<"prev", ".", "ts">>

\* what git.resolveReference may return
ResolvedIds == {ShaA, ShaB}

CallIds == 1..MaxCalls

\* the values assigned to previousSha
SetterValues == {UNDEFINED, ShaA, ShaC}

IdleCall == [state |-> "idle", declared |-> UNDEFINED, args |-> UNDEFINED, clean |-> TRUE]

\* the record of a step: which call it belongs to, whether it invoked the
\* resolver, whether the setter changed the value, whether it follows an
\* invalidation or a failure, the cache before it, the changes given to with()
Step(kind) ==
    [kind |-> kind, id |-> 0, invoked |-> FALSE, changed |-> FALSE,
     wasInvalidated |-> FALSE, afterFail |-> FALSE, cacheBefore |-> UNDEFINED,
     changes |-> UNDEFINED, before |-> UNDEFINED]

\* no call yet, nothing resolved, nothing returned
CommitRest ==
    /\ calls = [i \in CallIds |-> IdleCall]
    /\ hist = [started |-> 0, invocations |-> 0, writes |-> 0, mutated |-> FALSE,
               failed |-> FALSE, invalidated |-> FALSE, resolvedFrom |-> UNDEFINED]
    /\ last = Step("new")
    /\ result = UNDEFINED

CommitInit ==
    /\ \E type \in {<<"file">>, <<"branch">>}, originalFileName \in {UNDEFINED, FileOld},
          previousSha \in {UNDEFINED, ShaA}, previousFileName \in {UNDEFINED, FilePrev} :
          commit = GitCommitNew(type, <<"/", "repo">>, ShaB, FileA,
                                originalFileName, previousSha, previousFileName)
    /\ CommitRest

\* a file commit that was not renamed
ResolveInit ==
    /\ \E previousSha \in {UNDEFINED, ShaA} :
          commit = GitCommitNew(<<"file">>, <<"/", "repo">>, ShaB, FileA,
                                UNDEFINED, previousSha, UNDEFINED)
    /\ CommitRest

\* commit.previousSha = value
DoSetPreviousSha ==
    \E value \in SetterValues :
        /\ commit' = SetPreviousSha(commit, value)
        /\ hist' = [hist EXCEPT
                      !.mutated = @ \/ value # commit.previousSha,
                      !.invalidated = @ \/ (value # commit.previousSha
                                            /\ commit.resolvedPreviousFileSha # UNDEFINED)]
        /\ last' = [Step("set") EXCEPT !.changed = value # commit.previousSha]
        /\ result' = UNDEFINED
        /\ UNCHANGED calls

\* resolvePreviousFileSha(git) up to its await: returns at once when a
\* resolved value is cached, else calls git.resolveReference and suspends
DoResolveStart ==
    /\ hist.started < MaxCalls
    /\ LET i == hist.started + 1
           early == AlreadyResolved(commit)
       IN  /\ calls' = [calls EXCEPT ![i] =
                          IF early
                          THEN [IdleCall EXCEPT !.state = "returned"]
                          ELSE [state |-> "awaiting", declared |-> commit.previousSha,
                                args |-> ResolveArgs(commit), clean |-> TRUE]]
           /\ hist' = [hist EXCEPT !.started = i,
                                   !.invocations = IF early THEN @ ELSE @ + 1,
                                   !.invalidated = FALSE]
           /\ last' = [Step("start") EXCEPT !.id = i, !.invoked = ~early,
                                            !.wasInvalidated = hist.invalidated,
                                            !.afterFail = last.kind = "fail"]
    /\ result' = UNDEFINED
    /\ UNCHANGED commit

\* git.resolveReference fulfils: the awaiting call stores the value
DoResolveComplete(i) ==
    /\ calls[i].state = "awaiting"
    /\ \E value \in ResolvedIds :
        commit' = [commit EXCEPT !.resolvedPreviousFileSha = value]
    /\ calls' = [j \in CallIds |->
                   IF j = i THEN [calls[j] EXCEPT !.state = "resolved"]
                   ELSE [calls[j] EXCEPT !.clean = FALSE]]
    /\ hist' = [hist EXCEPT !.writes = @ + 1, !.invalidated = FALSE,
                            !.resolvedFrom = calls[i].declared]
    /\ last' = [Step("complete") EXCEPT !.id = i]
    /\ result' = UNDEFINED

\* a failing resolver whose error is swallowed and recorded in the cache
DoResolveFail_poison(i) ==
    /\ calls[i].state = "awaiting"
    /\ calls' = [calls EXCEPT ![i].state = "resolved"]
    /\ commit' = [commit EXCEPT !.resolvedPreviousFileSha = <<"error">>]
    /\ hist' = [hist EXCEPT !.failed = TRUE]
    /\ last' = [Step("fail") EXCEPT !.id = i, !.cacheBefore = commit.resolvedPreviousFileSha]
    /\ result' = UNDEFINED

\* git.resolveReference rejects: the await throws, the assignment does not
\* run, the promise of the call rejects
DoResolveFail(i) ==
    /\ calls[i].state = "awaiting"
    /\ calls' = [calls EXCEPT ![i].state = "rejected"]
    /\ hist' = [hist EXCEPT !.failed = TRUE]
    /\ last' = [Step("fail") EXCEPT !.id = i, !.cacheBefore = commit.resolvedPreviousFileSha]
    /\ result' = UNDEFINED
    /\ UNCHANGED commit

\* commit.previousUri
DoPreviousUri ==
    /\ result' = PreviousUri(commit)
    /\ last' = Step("previousUri")
    /\ UNCHANGED <<commit, calls, hist>>

NoChanges ==
    [type |-> UNDEFINED, sha |-> UNDEFINED, fileName |-> UNDEFINED,
     originalFileName |-> UNDEFINED, previousFileName |-> UNDEFINED, previousSha |-> UNDEFINED]

\* commit.with(changes)
DoWith ==
    /\ \E o \in {UNDEFINED, NULL, FileOld}, pf \in {UNDEFINED, NULL, FileOld},
          ps \in {UNDEFINED, NULL, ShaC}, t \in {UNDEFINED, <<"blame">>} :
        LET changes == [NoChanges EXCEPT !.originalFileName = o, !.previousFileName = pf,
                                         !.previousSha = ps, !.type = t]
        IN  /\ result' = With(commit, changes)
            /\ last' = [Step("with") EXCEPT !.changes = changes, !.before = commit]
    /\ UNCHANGED <<commit, calls, hist>>

----------------------------------------------------------------------------
(* StashSaveCommand.execute *)

\* what the user may type into the input box, or pass as args.message
Messages == {<<>>, <<"wip">>}

NoRun ==
    [pc |-> "idle", message |-> UNDEFINED, goBack |-> FALSE, repoPath |-> UNDEFINED,
     uris |-> UNDEFINED, saved |-> <<>>, executed |-> {}, dismissed |-> "no",
     error |-> FALSE, typed |-> FALSE]

\* return args.goBackCommand === undefined ? undefined : args.goBackCommand.execute()
GoBack(c) ==
    [c EXCEPT !.pc = "done",
              !.executed = IF c.goBack THEN @ \cup {"goBackCommand"} ELSE @]

\* line 61: git.stashSave(repoPath, args.message, args.uris) is called
CallStashSave(c) ==
    [c EXCEPT !.pc = "stashSave",
              !.saved = Append(@, [repoPath |-> c.repoPath, message |-> c.message,
                                   uris |-> c.uris])]

\* lines 51-61 up to the next await: prompt when args.message == null
EnterTry(c) ==
    IF c.message = UNDEFINED \/ c.message = NULL
    THEN [c EXCEPT !.pc = "showInputBox"]
    ELSE CallStashSave(c)

\* lines 42-49 once getHighlanderRepoPath has returned r
OnHighlanderRepoPath(c, r) ==
    IF Falsy(r) THEN [c EXCEPT !.pc = "RepositoriesQuickPick"]
    ELSE EnterTry([c EXCEPT !.repoPath = r])

\* lines 45-48 once the repository picker has returned pick
OnRepositoryPick(c, pick) ==
    IF pick.kind = "command"
    THEN [c EXCEPT !.pc = "done", !.executed = @ \cup {"pick"}]
    ELSE IF pick.kind = "undefined"
    THEN GoBack([c EXCEPT !.dismissed = "picker"])
    ELSE EnterTry([c EXCEPT !.repoPath = pick.repoPath])

\* the input box handler that saves whatever the prompt returned
OnInputBox_noDismissTest(c, m) ==
    CallStashSave([c EXCEPT !.message = m, !.typed = TRUE,
                            !.dismissed = IF m = UNDEFINED THEN "prompt" ELSE @])

\* lines 54-61 once showInputBox has returned m
OnInputBox(c, m) ==
    IF m = UNDEFINED
    THEN GoBack([c EXCEPT !.message = m, !.dismissed = "prompt"])
    ELSE CallStashSave([c EXCEPT !.message = m, !.typed = TRUE])

\* lines 63-66: the catch block
OnThrow(c) == [c EXCEPT !.pc = "done", !.error = TRUE]

StashInit == cmd = NoRun

\* the command is run: execute(args) up to its first await
DoExecute ==
    /\ cmd.pc \in {"idle", "done"}
    /\ \E message \in Messages \cup {UNDEFINED, NULL}, goBack \in BOOLEAN,
          uris \in {UNDEFINED, <<"/", "repo", "/", "b">>} :
        cmd' = [NoRun EXCEPT !.pc = "getHighlanderRepoPath", !.message = message,
                             !.goBack = goBack, !.uris = uris]

\* git.getHighlanderRepoPath returns
DoHighlanderRepoPath ==
    /\ cmd.pc = "getHighlanderRepoPath"
    /\ \E r \in RepoRoots \cup {UNDEFINED} : cmd' = OnHighlanderRepoPath(cmd, r)

\* RepositoriesQuickPick.show returns a command item, nothing or a repository
DoRepositoryPick ==
    /\ cmd.pc = "RepositoriesQuickPick"
    /\ \E pick \in {[kind |-> "command", repoPath |-> UNDEFINED],
                    [kind |-> "undefined", repoPath |-> UNDEFINED]}
                   \cup {[kind |-> "repository", repoPath |-> r] : r \in RepoRoots} :
        cmd' = OnRepositoryPick(cmd, pick)

\* window.showInputBox returns what was typed, or undefined when dismissed
DoInputBox ==
    /\ cmd.pc = "showInputBox"
    /\ \E m \in Messages \cup {UNDEFINED} : cmd' = OnInputBox(cmd, m)

\* window.showInputBox rejects
DoInputBoxThrows ==
    /\ cmd.pc = "showInputBox"
    /\ cmd' = OnThrow(cmd)

\* git.stashSave returns
DoStashSaveReturns ==
    /\ cmd.pc = "stashSave"
    /\ cmd' = [cmd EXCEPT !.pc = "done"]

\* git.stashSave throws
DoStashSaveThrows ==
    /\ cmd.pc = "stashSave"
    /\ cmd' = OnThrow(cmd)

----------------------------------------------------------------------------
(* Logger *)

\* OutputLevel
Silent == "silent"
Errors == "errors"
Verbose == "verbose"
OutputLevels == {Silent, Errors, Verbose}

\* Logger.output is the id of a channel, or NoChannel for undefined; the
\* window gives its channels the ids 1, 2, ... in the order it creates them
NoChannel == 0

\* what the last run of onConfigurationChanged found
NoEvent ==
    [ran |-> FALSE, levelBefore |-> Silent, outputBefore |-> NoChannel,
     createdBefore |-> 0, disposedBefore |-> {}]

\* the static initialisers of Logger: debug = false, level = Silent, no output
LoggerNew ==
    [configured |-> FALSE, debug |-> FALSE, level |-> Silent, output |-> NoChannel,
     created |-> 0, disposed |-> {}, lines |-> 0, printed |-> 0, ev |-> NoEvent]

\* a ConfigurationChangeEvent: is it the initializing one, which sections
\* configuration.changed reports
ChangeEvent(initializing, debugChanged, outputLevelChanged) ==
    [initializing |-> initializing, debug |-> debugChanged, outputLevel |-> outputLevelChanged]

\* configuration.initializingChangeEvent
InitializingChangeEvent == ChangeEvent(TRUE, FALSE, FALSE)

\* onConfigurationChanged that opens a channel whenever the level is not Silent
OnConfigurationChanged_alwaysCreate(l, e, cfg) ==
    LET seen == [l EXCEPT !.ev = [ran |-> TRUE, levelBefore |-> l.level,
                                  outputBefore |-> l.output, createdBefore |-> l.created,
                                  disposedBefore |-> l.disposed]]
        l1 == IF e.initializing \/ e.debug THEN [seen EXCEPT !.debug = cfg.debug] ELSE seen
        l2 == [l1 EXCEPT !.level = cfg.outputLevel]
    IN  IF e.initializing \/ e.outputLevel
        THEN IF l2.level = Silent
             THEN IF l2.output # NoChannel
                  THEN [l2 EXCEPT !.disposed = @ \cup {l2.output}, !.output = NoChannel]
                  ELSE l2
             ELSE [l2 EXCEPT !.created = @ + 1, !.output = l2.created + 1, !.lines = 0]
        ELSE l1

\* Logger.onConfigurationChanged(e), cfg being what configuration.get returns
OnConfigurationChanged(l, e, cfg) ==
    LET seen == [l EXCEPT !.ev = [ran |-> TRUE, levelBefore |-> l.level,
                                  outputBefore |-> l.output, createdBefore |-> l.created,
                                  disposedBefore |-> l.disposed]]
        l1 == IF e.initializing \/ e.debug THEN [seen EXCEPT !.debug = cfg.debug] ELSE seen
        l2 == [l1 EXCEPT !.level = cfg.outputLevel]
    IN  IF e.initializing \/ e.outputLevel
        THEN IF l2.level = Silent
             THEN IF l2.output # NoChannel
                  THEN [l2 EXCEPT !.disposed = @ \cup {l2.output}, !.output = NoChannel]
                  ELSE l2
             ELSE IF l2.output # NoChannel
                  THEN l2
                  ELSE [l2 EXCEPT !.created = @ + 1, !.output = l2.created + 1, !.lines = 0]
        ELSE l1

\* Logger.log(message): to the console when debug, to the channel when Verbose
Log(l) ==
    [l EXCEPT !.printed = IF l.debug THEN @ + 1 ELSE @,
              !.lines = IF l.output # NoChannel /\ l.level = Verbose THEN @ + 1 ELSE @]

\* Logger.error(ex) and Logger.warn(message): to the console when debug, to
\* the channel unless Silent
ErrorOrWarn(l) ==
    [l EXCEPT !.printed = IF l.debug THEN @ + 1 ELSE @,
              !.lines = IF l.output # NoChannel /\ l.level # Silent THEN @ + 1 ELSE @]

Configurations == [debug : BOOLEAN, outputLevel : OutputLevels]

LoggerInit ==
    /\ logger = LoggerNew
    /\ config \in Configurations

\* Logger.configure(context): subscribes to configuration.onDidChange, then
\* runs the handler on the initializing event
DoConfigure ==
    /\ ~logger.configured
    /\ logger' = OnConfigurationChanged([logger EXCEPT !.configured = TRUE],
                                        InitializingChangeEvent, config)
    /\ logger'.created <= MaxChannels
    /\ UNCHANGED config

\* the settings change and configuration.onDidChange fires: a section whose
\* value changed is reported as changed, another one may be
DoConfigurationChange ==
    /\ logger.configured
    /\ \E cfg \in Configurations, debugChanged \in BOOLEAN, outputLevelChanged \in BOOLEAN :
        /\ cfg.debug # config.debug => debugChanged
        /\ cfg.outputLevel # config.outputLevel => outputLevelChanged
        /\ config' = cfg
        /\ logger' = OnConfigurationChanged(logger,
                                            ChangeEvent(FALSE, debugChanged, outputLevelChanged),
                                            cfg)
        /\ logger'.created <= MaxChannels

\* Logger.log
DoLog ==
    /\ logger' = Log(logger)
    /\ logger'.printed <= MaxLines
    /\ logger'.lines <= MaxLines
    /\ UNCHANGED config

\* Logger.error, Logger.warn
DoErrorOrWarn ==
    /\ logger' = ErrorOrWarn(logger)
    /\ logger'.printed <= MaxLines
    /\ logger'.lines <= MaxLines
    /\ UNCHANGED config

----------------------------------------------------------------------------
(* Specifications *)

CommitIdle ==
    /\ commit = UNDEFINED
    /\ calls = <<>>
    /\ hist = UNDEFINED
    /\ last = UNDEFINED
    /\ result = UNDEFINED

LoggerIdle ==
    /\ logger = LoggerNew
    /\ config = [debug |-> FALSE, outputLevel |-> Silent]

\* the GitUri codec
InitUri == UriInit /\ CommitIdle /\ StashInit /\ LoggerIdle
NextUri ==
    \/ DoToRevisionUri /\ UNCHANGED <<commitVars, cmd, loggerVars>>
    \/ DoFromRevisionUri /\ UNCHANGED <<commitVars, cmd, loggerVars>>
    \/ DoToRevisionUriOfGitUri /\ UNCHANGED <<commitVars, cmd, loggerVars>>
    \/ DoNewGitUri /\ UNCHANGED <<commitVars, cmd, loggerVars>>
    \/ DoFromUri /\ UNCHANGED <<commitVars, cmd, loggerVars>>
SpecUri == InitUri /\ [][NextUri]_vars

\* one GitCommit, its previousSha setter and its resolvePreviousFileSha calls
InitResolve == ResolveInit /\ UriInit /\ StashInit /\ LoggerIdle
NextResolve ==
    \/ DoSetPreviousSha /\ UNCHANGED <<uriVars, cmd, loggerVars>>
    \/ DoResolveStart /\ UNCHANGED <<uriVars, cmd, loggerVars>>
    \/ \E i \in CallIds : DoResolveComplete(i) /\ UNCHANGED <<uriVars, cmd, loggerVars>>
    \/ \E i \in CallIds : DoResolveFail(i) /\ UNCHANGED <<uriVars, cmd, loggerVars>>
SpecResolve == InitResolve /\ [][NextResolve]_vars

\* one GitCommit, its setter, its locator getter and with()
InitRecord == CommitInit /\ UriInit /\ StashInit /\ LoggerIdle
NextRecord ==
    \/ DoSetPreviousSha /\ UNCHANGED <<uriVars, cmd, loggerVars>>
    \/ DoPreviousUri /\ UNCHANGED <<uriVars, cmd, loggerVars>>
    \/ DoWith /\ UNCHANGED <<uriVars, cmd, loggerVars>>
SpecRecord == InitRecord /\ [][NextRecord]_vars

\* runs of the stash-save command
InitStash == StashInit /\ UriInit /\ CommitIdle /\ LoggerIdle
NextStash ==
    \/ DoExecute /\ UNCHANGED <<uriVars, commitVars, loggerVars>>
    \/ DoHighlanderRepoPath /\ UNCHANGED <<uriVars, commitVars, loggerVars>>
    \/ DoRepositoryPick /\ UNCHANGED <<uriVars, commitVars, loggerVars>>
    \/ DoInputBox /\ UNCHANGED <<uriVars, commitVars, loggerVars>>
    \/ DoInputBoxThrows /\ UNCHANGED <<uriVars, commitVars, loggerVars>>
    \/ DoStashSaveReturns /\ UNCHANGED <<uriVars, commitVars, loggerVars>>
    \/ DoStashSaveThrows /\ UNCHANGED <<uriVars, commitVars, loggerVars>>
SpecStash == InitStash /\ [][NextStash]_vars

\* the Logger under configuration changes
InitLogger == LoggerInit /\ UriInit /\ CommitIdle /\ StashInit
NextLogger ==
    \/ DoConfigure /\ UNCHANGED <<uriVars, commitVars, cmd>>
    \/ DoConfigurationChange /\ UNCHANGED <<uriVars, commitVars, cmd>>
    \/ DoLog /\ UNCHANGED <<uriVars, commitVars, cmd>>
    \/ DoErrorOrWarn /\ UNCHANGED <<uriVars, commitVars, cmd>>
SpecLogger == InitLogger /\ [][NextLogger]_vars

----------------------------------------------------------------------------
(* Properties of the GitUri codec, under SpecUri *)

\* a GitUri has just been built from a Revision payload or a commit info
BuiltWithSha == op \in {"fromRevisionUri", "new GitUri(uri, commit)"}

\* the sha of that payload, or of that commit info
GivenSha ==
    IF op = "fromRevisionUri" THEN JsonGet(revUri.query, <<"sha">>) ELSE inp.sha

\* C1: decoding the locator toRevisionUri made of (revisionId, resolve(repoRoot,
\* relativeFileName), repoRoot), revisionId a committed id, gives back the
\* resolved path, the repoRoot and the whole revisionId, and the relative
\* file name can be told from the decoded path and root: no two triples
\* decode to the same GitUri
C1_RoundTrip ==
    (op = "fromRevisionUri" /\ IsRealSha(inp.sha)) =>
        /\ gitUri.path = PathResolve(inp.repoPath, inp.fileName)
        /\ gitUri.repoPath = inp.repoPath
        /\ gitUri.sha = inp.sha
        /\ NormalizePath(PathRelative(gitUri.repoPath, gitUri.path)) = inp.fileName

C1_Witness ==
    /\ op = "fromRevisionUri"
    /\ inp.sha = ShaB
    /\ inp.fileName = <<"src", "/", "a", ".", "ts">>
    /\ gitUri.sha = ShaB
    /\ gitUri.path = <<"/", "work", "/", "repo", "/", "src", "/", "a", ".", "ts">>

\* C2, as claimed: the sha of a GitUri built from a payload or a commit info
\* is set only for a committed id, and is unset for either sentinel
C2_SentinelsUnset ==
    BuiltWithSha =>
        /\ gitUri.sha # UNDEFINED => IsRealSha(GivenSha)
        /\ IsUncommitted(GivenSha) => gitUri.sha = UNDEFINED

\* C2, amended: the sha is set, to the given sha, only for a committed id or
\* the staged-uncommitted sentinel; it is unset for the uncommitted sentinel
C2_UncommittedUnset ==
    BuiltWithSha =>
        /\ gitUri.sha # UNDEFINED =>
              /\ gitUri.sha = GivenSha
              /\ IsRealSha(GivenSha) \/ IsStagedUncommitted(GivenSha)
        /\ IsRealSha(GivenSha) \/ IsStagedUncommitted(GivenSha) => gitUri.sha = GivenSha
        /\ GivenSha = UncommittedSha => gitUri.sha = UNDEFINED

C2_Witness ==
    /\ op = "new GitUri(uri, commit)"
    /\ inp.sha = UncommittedSha
    /\ gitUri.sha = UNDEFINED
    /\ gitUri.repoPath = inp.repoPath

\* fromUri has just returned for a plain locator that git.isTrackable refused
Untrackable == op = "fromUri" /\ ~inp.isGitUri /\ ~inp.trackable

\* the GitUri returned has the five components of the input, no repoPath and
\* no sha, and neither lookup of the GitService was called
PassedThrough ==
    /\ gitUri = inp.uri
    /\ gitUri.repoPath = UNDEFINED
    /\ gitUri.sha = UNDEFINED
    /\ gitCalls \cap {"getRepoPath", "getGitUriForVersionedFile"} = {}

\* C8, as claimed: an untrackable plain locator of any scheme passes through
C8_PassthroughAnyScheme == Untrackable => PassedThrough

\* C8, amended: an untrackable plain locator passes through unless its scheme
\* is the Revision scheme
C8_PassthroughUnlessRevision ==
    (Untrackable /\ inp.uri.scheme # GitLensGit) => PassedThrough

C8_Witness ==
    /\ Untrackable
    /\ inp.uri.scheme = GitScheme
    /\ gitUri.scheme = GitScheme
    /\ gitUri.query = inp.uri.query
    /\ gitCalls = {"isTrackable"}

----------------------------------------------------------------------------
(* Properties of resolvePreviousFileSha, under SpecResolve *)

C4_ExactlyOnce ==
    (~hist.mutated /\ ~hist.failed) => hist.invocations <= 1

\* C4, amended: while previousSha is not assigned and the resolver does not
\* fail, a call issued after a resolution has completed does not invoke
\* git.resolveReference and finds the cached value
C4_NoWorkOnceResolved ==
    (~hist.mutated /\ ~hist.failed /\ last.kind = "start" /\ hist.writes >= 1) =>
        /\ ~last.invoked
        /\ calls[last.id].state = "returned"
        /\ commit.resolvedPreviousFileSha # UNDEFINED

C4_Witness ==
    /\ ~hist.mutated
    /\ ~hist.failed
    /\ last.kind = "start"
    /\ hist.writes = 1
    /\ hist.invocations = 1
    /\ calls[last.id].state = "returned"

\* C5: when git.resolveReference fails the call rejects and the cached value
\* is what it was; it is unset when no other call stored a value meanwhile,
\* and the next call then invokes the resolver again
C5_FailureKeepsCache ==
    /\ last.kind = "fail" =>
          /\ calls[last.id].state = "rejected"
          /\ commit.resolvedPreviousFileSha = last.cacheBefore
          /\ calls[last.id].clean => commit.resolvedPreviousFileSha = UNDEFINED
    /\ (last.kind = "start" /\ last.afterFail /\ commit.resolvedPreviousFileSha = UNDEFINED) =>
          last.invoked /\ calls[last.id].state = "awaiting"

C5_Witness ==
    /\ last.kind = "start"
    /\ last.afterFail
    /\ last.invoked
    /\ hist.writes = 0
    /\ hist.invocations = 2
    /\ calls[1].state = "rejected"

\* C9: a cached resolved value was resolved from the previousSha the record
\* declares now
C9_NeverStale ==
    commit.resolvedPreviousFileSha # UNDEFINED => hist.resolvedFrom = commit.previousSha

----------------------------------------------------------------------------
(* Properties of the GitCommit record, under SpecRecord *)

\* C6: previousUri is the file locator of previousFileName resolved against
\* repoPath, and of originalFileName when previousFileName is unset
C6_PreviousUriFallback ==
    last.kind = "previousUri" =>
        /\ ~Falsy(commit.previousFileName) =>
              result = UriFile(PathResolve(commit.repoPath, commit.previousFileName))
        /\ (commit.previousFileName = UNDEFINED /\ commit.originalFileName # UNDEFINED) =>
              result = UriFile(PathResolve(commit.repoPath, commit.originalFileName))

NullableFields == {"originalFileName", "previousFileName", "previousSha"}

\* C7: in the record with(changes) returns, a nullable field keeps the
\* original value when the change is undefined, is unset when the change is
\* null, and is the change otherwise; the original record is not modified
C7_WithTriState ==
    last.kind = "with" =>
        /\ \A f \in NullableFields :
              /\ last.changes[f] = UNDEFINED => result[f] = last.before[f]
              /\ last.changes[f] = NULL => result[f] = UNDEFINED
              /\ last.changes[f] \notin {UNDEFINED, NULL} => result[f] = last.changes[f]
        /\ commit = last.before

C7_Witness ==
    /\ last.kind = "with"
    /\ last.changes.previousFileName = NULL
    /\ last.changes.originalFileName = UNDEFINED
    /\ commit.previousFileName = FilePrev
    /\ commit.originalFileName = FileOld
    /\ result.previousFileName = UNDEFINED
    /\ result.originalFileName = FileOld

----------------------------------------------------------------------------
(* Properties of StashSaveCommand.execute, under SpecStash *)

\* C10: a run calls git.stashSave at most once, with a repository path that
\* was found or picked and a message that is defined; a run in which the
\* picker or the prompt was dismissed never calls it, and ends by executing
\* the goBackCommand when one was supplied
C10_StashSaveOnce ==
    /\ Len(cmd.saved) <= 1
    /\ Len(cmd.saved) = 1 =>
          /\ cmd.saved[1].repoPath \in RepoRoots
          /\ cmd.saved[1].repoPath = cmd.repoPath
          /\ cmd.saved[1].message \notin {UNDEFINED, NULL}
          /\ cmd.saved[1].message = cmd.message
    /\ cmd.pc = "stashSave" => Len(cmd.saved) = 1
    /\ cmd.dismissed # "no" =>
          /\ cmd.saved = <<>>
          /\ cmd.pc = "done"
          /\ cmd.executed = IF cmd.goBack THEN {"goBackCommand"} ELSE {}

C10_Witness ==
    /\ cmd.pc = "done"
    /\ Len(cmd.saved) = 1
    /\ cmd.typed
    /\ cmd.saved[1].message = <<"wip">>
    /\ cmd.saved[1].repoPath = <<"/", "work", "/", "repo">>
    /\ ~cmd.error

----------------------------------------------------------------------------
(* Properties of the Logger, under SpecLogger *)

\* the last run of the handler created a channel / disposed one
CreatedNow == logger.created # logger.ev.createdBefore
DisposedNow == logger.disposed # logger.ev.disposedBefore

\* C11: Logger.output is undefined exactly when Logger.level is Silent; the
\* handler creates a channel only when there is none, keeps the channel when
\* the level changes between Errors and Verbose, and disposes the channel,
\* the one it had, exactly when the level changes to Silent
C11_ChannelLifecycle ==
    /\ logger.output = NoChannel <=> logger.level = Silent
    /\ logger.output # NoChannel => logger.output \notin logger.disposed
    /\ logger.ev.ran =>
          /\ CreatedNow =>
                /\ logger.ev.outputBefore = NoChannel
                /\ logger.created = logger.ev.createdBefore + 1
                /\ logger.output = logger.created
          /\ (logger.ev.levelBefore # Silent /\ logger.level # Silent) =>
                /\ logger.output = logger.ev.outputBefore
                /\ ~CreatedNow
          /\ DisposedNow <=> (logger.ev.levelBefore # Silent /\ logger.level = Silent)
          /\ DisposedNow =>
                logger.disposed = logger.ev.disposedBefore \cup {logger.ev.outputBefore}

C11_Witness ==
    /\ logger.configured
    /\ logger.ev.ran
    /\ logger.ev.levelBefore = Errors
    /\ logger.level = Verbose
    /\ logger.output = 2
    /\ logger.ev.outputBefore = 2
    /\ logger.created = 2
    /\ logger.disposed = {1}

====
